---------------------------- MODULE Spec2Model ----------------------------
(***************************************************************************)
(* A model of active_subspaces/utils/misc.py: the two normalizers, the     *)
(* shape validators, the conditional-statistics estimator and the          *)
(* at-least-2-d coercion helper.                                           *)
(*                                                                         *)
(* Numbers.  numpy's float64 values are modelled by exact rationals        *)
(* extended with +inf, -inf and nan, with IEEE rules for the operations    *)
(* on the special values (x/0, inf-inf, 0*inf, ...).  Rounding of finite   *)
(* results and the sign of zero are not modelled: every statement below    *)
(* about finite values is a statement about the formulas of the code in    *)
(* exact arithmetic.                                                       *)
(*                                                                         *)
(* Arrays.  An ndarray is [shape, data]: shape a sequence of naturals,     *)
(* data the row-major sequence of its Size(shape) entries.                 *)
(***************************************************************************)
EXTENDS Integers, Sequences, FiniteSets, TLC

VARIABLES
    op,        \* name of the last operation performed ("init" before any)
    X,         \* the caller's input array
    f,         \* the caller's output array (function values)
    ind,       \* the caller's group-label array
    A,         \* the argument of atleast_2d
    oned_as,   \* the mode argument of atleast_2d
    ctor,      \* the constructor arguments of the normalizer
    inst,      \* the normalizer instance (NoInst before construction)
    ret,       \* the outcome of the last call: a value or a raised exception
    hist,      \* the operations applied, in order, to orig to obtain X
    orig,      \* the array the caller started from
    log,       \* the records sent to the logger 'PAUL'
    calls      \* the calls in progress on a shared instance, one per caller

vars == <<op, X, f, ind, A, oned_as, ctor, inst, ret, hist, orig, log, calls>>

---------------------------------------------------------------------------
(* Bounds of the model.                                                    *)

\* Entries of generated arrays range over -MaxVal .. MaxVal.
MaxVal == 2
\* Largest number of rows M of a generated matrix.
MaxRows == 2
\* Largest number of columns m of a generated matrix.
MaxCols == 2

---------------------------------------------------------------------------
(* float64 values: rationals n/d in lowest terms (d > 0), and the          *)
(* specials.                                                               *)

Abs(a) == IF a < 0 THEN -a ELSE a

RECURSIVE GCD(_, _)
GCD(a, b) == IF b = 0 THEN a ELSE GCD(b, a % b)

Fin(n, d) ==
    LET s == IF d < 0 THEN -1 ELSE 1
        g == GCD(Abs(n), Abs(d))
    IN  [k |-> "fin", n |-> (s * n) \div g, d |-> (s * d) \div g]

NaN == [k |-> "nan", n |-> 0, d |-> 0]
Inf(s) == [k |-> "inf", n |-> s, d |-> 0]
Num(i) == Fin(i, 1)

IsNaN(a) == a.k = "nan"
IsFin(a) == a.k = "fin"
Sgn(a) == IF a.n > 0 THEN 1 ELSE IF a.n < 0 THEN -1 ELSE 0

Neg(a) == IF a.k = "nan" THEN NaN ELSE [a EXCEPT !.n = -a.n]

Add(a, b) ==
    IF a.k = "nan" \/ b.k = "nan" THEN NaN
    ELSE IF a.k = "inf" /\ b.k = "inf" THEN (IF a.n = b.n THEN a ELSE NaN)
    ELSE IF a.k = "inf" THEN a
    ELSE IF b.k = "inf" THEN b
    ELSE Fin(a.n * b.d + b.n * a.d, a.d * b.d)

Sub(a, b) == Add(a, Neg(b))

Mul(a, b) ==
    IF a.k = "nan" \/ b.k = "nan" THEN NaN
    ELSE IF a.k = "inf" \/ b.k = "inf"
         THEN (IF Sgn(a) * Sgn(b) = 0 THEN NaN ELSE Inf(Sgn(a) * Sgn(b)))
    ELSE Fin(a.n * b.n, a.d * b.d)

Div(a, b) ==
    IF a.k = "nan" \/ b.k = "nan" THEN NaN
    ELSE IF a.k = "inf" THEN (IF b.k = "inf" THEN NaN
                              ELSE Inf(IF Sgn(b) < 0 THEN -a.n ELSE a.n))
    ELSE IF b.k = "inf" THEN Num(0)
    ELSE IF b.n = 0 THEN (IF a.n = 0 THEN NaN ELSE Inf(Sgn(a)))
    ELSE Fin(a.n * b.d, a.d * b.n)

Less(a, b) == IsFin(a) /\ IsFin(b) /\ a.n * b.d < b.n * a.d
Leq(a, b) == IsFin(a) /\ IsFin(b) /\ a.n * b.d <= b.n * a.d

---------------------------------------------------------------------------
(* ndarrays.                                                               *)

RECURSIVE Size(_)
Size(shape) == IF shape = <<>> THEN 1 ELSE Head(shape) * Size(Tail(shape))

ndim(a) == Len(a.shape)

Arr(shape, data) == [shape |-> shape, data |-> data]

\* a[i, j] of a two-dimensional array, 1-based
At(a, i, j) == a.data[(i - 1) * a.shape[2] + j]

\* Row and column (1-based) of the q-th entry of a row-major array with m columns.
RowOf(q, m) == ((q - 1) \div m) + 1
ColOf(q, m) == ((q - 1) % m) + 1

\* a[i, j] where a is broadcast against a larger array: an axis of length 1
\* is repeated.
BAt(a, i, j) ==
    At(a, IF a.shape[1] = 1 THEN 1 ELSE i, IF a.shape[2] = 1 THEN 1 ELSE j)

\* numpy's broadcasting of two axis lengths: the common length, or -1 when
\* the operands cannot be broadcast together.
BroadcastLen(a, b) == IF a = b THEN a ELSE IF a = 1 THEN b ELSE IF b = 1 THEN a ELSE -1

\* numpy's a.reshape(shape): the same data under another shape, or ValueError.
CanReshape(a, shape) == Size(shape) = Size(a.shape)
reshape(a, shape) == Arr(shape, a.data)

---------------------------------------------------------------------------
(* Outcomes of a call: a returned value or a raised exception.             *)

None == [k |-> "none"]
Return(v) == [status |-> "ok", val |-> v, exc |-> [cls |-> "", msg |-> ""]]
Raise(cls, msg) == [status |-> "error", val |-> None, exc |-> [cls |-> cls, msg |-> msg]]
NotCalled == [status |-> "none", val |-> None, exc |-> [cls |-> "", msg |-> ""]]

IsOk(r) == r.status = "ok"
IsError(r) == r.status = "error"

---------------------------------------------------------------------------
(* The generated inputs.                                                   *)

Seeds == 0..(2 * MaxVal)

\* The k-th entry of the array generated from seed s: for k = 1 the seeds
\* enumerate every value of -MaxVal..MaxVal.
Gen(s, k) == ((s + (k - 1) * (s + 1)) % (2 * MaxVal + 1)) - MaxVal

GenArr(s, shape) == Arr(shape, [q \in 1..Size(shape) |-> Num(Gen(s, q))])

\* Shapes of rank 0, 1, 2 and 3.
MatShapes == {<<M, m>> : M \in 0..MaxRows, m \in 0..MaxCols}
OtherShapes == {<<>>} \cup {<<n>> : n \in 0..MaxCols} \cup {<<a, b, 1>> : a \in 1..MaxRows, b \in 1..MaxCols}
Shapes == MatShapes \cup OtherShapes

---------------------------------------------------------------------------
(* process_inputs and process_inputs_outputs.                              *)

ProcessInputsResult(Xv, M, m) == [X |-> Xv, M |-> M, m |-> m]

\* process_inputs with the two counts exchanged: M, m = X.shape[::-1]
process_inputs_swapped(Xa) ==
    IF Len(Xa.shape) = 2
    THEN Return(ProcessInputsResult(reshape(Xa, <<Xa.shape[1], Xa.shape[2]>>),
                                    Xa.shape[2], Xa.shape[1]))
    ELSE Raise("ValueError", "The inputs X should be a two-d numpy array.")

process_inputs(Xa) ==
    IF Len(Xa.shape) = 2
    THEN Return(ProcessInputsResult(reshape(Xa, <<Xa.shape[1], Xa.shape[2]>>),
                                    Xa.shape[1], Xa.shape[2]))
    ELSE Raise("ValueError", "The inputs X should be a two-d numpy array.")

ExcOutputsShape == [cls |-> "ValueError", msg |-> "The outputs f should be a two-d numpy array."]
ExcDifferentNumber == [cls |-> "Exception", msg |-> "Different number of inputs and outputs."]
ExcOnlyScalar == [cls |-> "Exception", msg |-> "Only scalar-valued functions."]

process_inputs_outputs(Xa, fa) ==
    LET p == process_inputs(Xa) IN
    IF IsError(p) THEN p
    ELSE IF Len(fa.shape) # 2 THEN Raise(ExcOutputsShape.cls, ExcOutputsShape.msg)
    ELSE IF fa.shape[1] # p.val.M THEN Raise(ExcDifferentNumber.cls, ExcDifferentNumber.msg)
    ELSE IF fa.shape[2] # 1 THEN Raise(ExcOnlyScalar.cls, ExcOnlyScalar.msg)
    ELSE Return([X |-> p.val.X, f |-> reshape(fa, <<p.val.M, 1>>),
                 M |-> p.val.M, m |-> p.val.m])

---------------------------------------------------------------------------
(* The validators called on generated arrays.                              *)

Unused == [k |-> "unused"]

FShapes == {<<M, m>> : M \in 0..(MaxRows + 1), m \in 0..MaxCols} \cup OtherShapes

InitValidate ==
    /\ op = "init"
    /\ \E s \in Seeds, sh \in Shapes : X = GenArr(s, sh)
    /\ \E s \in {0, 1}, sh \in FShapes : f = GenArr(s, sh)
    /\ ret = NotCalled
    /\ ind = Unused /\ A = Unused /\ oned_as = Unused /\ ctor = Unused
    /\ inst = Unused /\ hist = <<>> /\ orig = Unused /\ log = <<>> /\ calls = Unused

CallProcessInputs ==
    /\ op = "init"
    /\ op' = "process_inputs"
    /\ ret' = process_inputs(X)
    /\ UNCHANGED <<X, f, ind, A, oned_as, ctor, inst, hist, orig, log, calls>>

CallProcessInputsOutputs ==
    /\ op = "init"
    /\ op' = "process_inputs_outputs"
    /\ ret' = process_inputs_outputs(X, f)
    /\ UNCHANGED <<X, f, ind, A, oned_as, ctor, inst, hist, orig, log, calls>>

NextValidate == CallProcessInputs \/ CallProcessInputsOutputs

SpecValidate == InitValidate /\ [][NextValidate]_vars

---------------------------------------------------------------------------
(* process_inputs on a generated array X.                                  *)

\* C2: process_inputs raises ValueError (the spec's ShapeError) for every
\* array whose rank is not 2, and for every two-dimensional array, M = 0
\* included, returns the array with the same shape and contents together with
\* its row count M and its column count m.
Thm_C2_ProcessInputs ==
    op = "process_inputs" =>
        IF ndim(X) = 2
        THEN /\ IsOk(ret)
             /\ ret.val.X = X
             /\ ret.val.M = X.shape[1]
             /\ ret.val.m = X.shape[2]
        ELSE /\ IsError(ret)
             /\ ret.exc.cls = "ValueError"

Wit_C2_EmptyMatrix ==
    /\ op = "process_inputs"
    /\ ndim(X) = 2 /\ X.shape[1] = 0 /\ X.shape[2] = 2
    /\ IsOk(ret) /\ ret.val.M = 0 /\ ret.val.m = 2

\* C1: for a two-dimensional X of shape (M, m), an f that is not
\* two-dimensional, a two-dimensional f with another row count, and a
\* two-dimensional f with M rows and more than one column each fail with
\* an error of a type of their own, the three types distinct; only an f of
\* shape (M, 1) returns (X, f, M, m).
Claim_C1_TypedErrors ==
    (op = "process_inputs_outputs" /\ ndim(X) = 2) =>
        LET M == X.shape[1] IN
        /\ ndim(f) # 2 =>
              /\ IsError(ret)
              /\ ret.exc = ExcOutputsShape
              /\ ret.exc.cls \notin {ExcDifferentNumber.cls, ExcOnlyScalar.cls}
        /\ (ndim(f) = 2 /\ f.shape[1] # M) =>
              /\ IsError(ret)
              /\ ret.exc = ExcDifferentNumber
              /\ ret.exc.cls \notin {ExcOutputsShape.cls, ExcOnlyScalar.cls}
        /\ (ndim(f) = 2 /\ f.shape[1] = M /\ f.shape[2] > 1) =>
              /\ IsError(ret)
              /\ ret.exc = ExcOnlyScalar
              /\ ret.exc.cls \notin {ExcOutputsShape.cls, ExcDifferentNumber.cls}
        /\ IsOk(ret) <=> (ndim(f) = 2 /\ f.shape = <<M, 1>>)
        /\ IsOk(ret) =>
              ret.val = [X |-> X, f |-> f, M |-> M, m |-> X.shape[2]]

---------------------------------------------------------------------------
(* BoundedNormalizer.                                                      *)

NoInst == [cls |-> "none"]

\* What a method call leaves behind: its outcome, the instance and the
\* caller's array after the call.
Effect(r, self, Xa) == [ret |-> r, self |-> self, X |-> Xa]

ExcBroadcast == [cls |-> "ValueError", msg |-> "operands could not be broadcast together"]
ExcReshape == [cls |-> "ValueError", msg |-> "cannot reshape array"]

\* __init__: m = lb.size; self.lb = lb.reshape((1, m)); self.ub = ub.reshape((1, m))
BoundedNormalizer_init(lb, ub) ==
    LET m == Size(lb.shape) IN
    IF ~CanReshape(ub, <<1, m>>) THEN Raise(ExcReshape.cls, ExcReshape.msg)
    ELSE Return([cls |-> "BoundedNormalizer",
                 lb |-> reshape(lb, <<1, m>>), ub |-> reshape(ub, <<1, m>>)])

\* The scaling to [0, 1] in the place of [-1, 1]: (X - lb) / (ub - lb)
NormalizeEntryUnit(x, l, u) == Div(Sub(x, l), Sub(u, l))

\* One entry of 2.0 * (X - lb) / (ub - lb) - 1.0
NormalizeEntry(x, l, u) == Sub(Div(Mul(Num(2), Sub(x, l)), Sub(u, l)), Num(1))

\* The inverse scaling without the shift: (ub - lb) * (X + 1.0) / 2.0
UnnormalizeEntryNoShift(x, l, u) == Div(Mul(Sub(u, l), Add(x, Num(1))), Num(2))

\* One entry of (ub - lb) * (X + 1.0) / 2.0 + lb
UnnormalizeEntry(x, l, u) == Add(Div(Mul(Sub(u, l), Add(x, Num(1))), Num(2)), l)

\* X_norm = 2.0 * (X - self.lb) / (self.ub - self.lb) - 1.0 on a validated X,
\* lb and ub of shape (1, m) broadcast against X of shape (M, k).
BoundedNormalizer_normalize_value(self, Xa) ==
    LET M == Xa.shape[1]
        c == BroadcastLen(Xa.shape[2], self.lb.shape[2])
    IN  IF c = -1 THEN Raise(ExcBroadcast.cls, ExcBroadcast.msg)
        ELSE Return(Arr(<<M, c>>,
                 [q \in 1..(M * c) |->
                     NormalizeEntry(BAt(Xa, RowOf(q, c), ColOf(q, c)),
                                    BAt(self.lb, 1, ColOf(q, c)),
                                    BAt(self.ub, 1, ColOf(q, c)))]))

BoundedNormalizer_unnormalize_value(self, Xa) ==
    LET M == Xa.shape[1]
        c == BroadcastLen(Xa.shape[2], self.lb.shape[2])
    IN  IF c = -1 THEN Raise(ExcBroadcast.cls, ExcBroadcast.msg)
        ELSE Return(Arr(<<M, c>>,
                 [q \in 1..(M * c) |->
                     UnnormalizeEntry(BAt(Xa, RowOf(q, c), ColOf(q, c)),
                                      BAt(self.lb, 1, ColOf(q, c)),
                                      BAt(self.ub, 1, ColOf(q, c)))]))

\* normalize computing in place: X -= self.lb and so on, X returned
BoundedNormalizer_normalize_inplace(self, Xa) ==
    LET p == process_inputs(Xa)
        r == BoundedNormalizer_normalize_value(self, p.val.X)
    IN  IF IsError(p) THEN Effect(p, self, Xa)
        ELSE Effect(r, self, IF IsOk(r) THEN r.val ELSE Xa)

\* normalize(self, X): process_inputs, then the formula; nothing is assigned
\* to self or written into X.
BoundedNormalizer_normalize(self, Xa) ==
    LET p == process_inputs(Xa) IN
    IF IsError(p) THEN Effect(p, self, Xa)
    ELSE Effect(BoundedNormalizer_normalize_value(self, p.val.X), self, Xa)

BoundedNormalizer_unnormalize(self, Xa) ==
    LET p == process_inputs(Xa) IN
    IF IsError(p) THEN Effect(p, self, Xa)
    ELSE Effect(BoundedNormalizer_unnormalize_value(self, p.val.X), self, Xa)

---------------------------------------------------------------------------
(* A caller that builds a BoundedNormalizer and passes an array through    *)
(* normalize and unnormalize in turn, feeding each result to the next      *)
(* call.                                                                   *)

\* Number of chained calls the caller makes.
MaxCalls == 2

CallShapes == {<<M, m>> : M \in 0..MaxRows, m \in 1..MaxCols} \cup {<<>>, <<1>>, <<1, 1, 1>>}

NoArray == [k |-> "noarray"]

\* lb of size m; ub of size m, or of size m + 1 by the caller's mistake.
InitBounded ==
    /\ op = "init"
    /\ \E s \in Seeds, t \in Seeds, m \in 1..MaxCols, n \in 0..1 :
           ctor = [lb |-> GenArr(s, <<m, 1>>), ub |-> GenArr(t, <<m + n, 1>>)]
    /\ X = NoArray
    /\ orig = NoArray
    /\ inst = NoInst
    /\ ret = NotCalled
    /\ hist = <<>>
    /\ f = Unused /\ ind = Unused /\ A = Unused /\ oned_as = Unused
    /\ log = <<>> /\ calls = Unused

ConstructBounded ==
    /\ op = "init"
    /\ LET r == BoundedNormalizer_init(ctor.lb, ctor.ub) IN
         /\ ret' = r
         /\ inst' = IF IsOk(r) THEN r.val ELSE NoInst
    /\ op' = "__init__"
    /\ UNCHANGED <<X, f, ind, A, oned_as, ctor, hist, orig, log, calls>>

\* The caller obtains the array it is going to pass to the instance.
ProvideInput ==
    /\ op = "__init__"
    /\ inst # NoInst
    /\ \E s \in Seeds, sh \in CallShapes : X' = GenArr(s, sh)
    /\ orig' = X'
    /\ op' = "input"
    /\ UNCHANGED <<f, ind, A, oned_as, ctor, inst, ret, hist, log, calls>>

\* The caller's next argument is the array the call returned, when it
\* returned one.
Chain(e, name) ==
    /\ ret' = e.ret
    /\ inst' = e.self
    /\ X' = IF IsOk(e.ret) THEN e.ret.val ELSE e.X
    /\ hist' = IF IsOk(e.ret) THEN Append(hist, name) ELSE hist
    /\ op' = name
    /\ UNCHANGED <<f, ind, A, oned_as, ctor, orig, log, calls>>

CallBoundedNormalize ==
    /\ op \in {"input", "normalize", "unnormalize"} \ {"normalize"}
    /\ IsOk(ret)
    /\ Len(hist) < MaxCalls
    /\ Chain(BoundedNormalizer_normalize(inst, X), "normalize")

CallBoundedUnnormalize ==
    /\ op \in {"input", "normalize", "unnormalize"} \ {"unnormalize"}
    /\ IsOk(ret)
    /\ Len(hist) < MaxCalls
    /\ Chain(BoundedNormalizer_unnormalize(inst, X), "unnormalize")

NextBounded ==
    ConstructBounded \/ ProvideInput \/ CallBoundedNormalize \/ CallBoundedUnnormalize

SpecBounded == InitBounded /\ [][NextBounded]_vars

\* lb[j] < ub[j] for every coordinate j of a constructed BoundedNormalizer.
ValidBounds(self) ==
    \A j \in 1..self.lb.shape[2] : Less(At(self.lb, 1, j), At(self.ub, 1, j))

\* The caller's array is an M-by-m matrix for the instance's m.
IsMbym(a, self) == ndim(a) = 2 /\ a.shape[2] = self.lb.shape[2]

\* C3: for every BoundedNormalizer with lb[j] < ub[j] for all j and every
\* M-by-m matrix X, whatever its entries, unnormalize(normalize(X)) = X and
\* normalize(unnormalize(X)) = X.
Thm_C3_BoundedRoundTrip ==
    (/\ inst # NoInst
     /\ orig # NoArray
     /\ ValidBounds(inst)
     /\ IsMbym(orig, inst)
     /\ hist \in {<<"normalize", "unnormalize">>, <<"unnormalize", "normalize">>})
    => X = orig

Wit_C3_OutsideBox ==
    /\ inst # NoInst
    /\ orig # NoArray
    /\ ValidBounds(inst)
    /\ inst.lb.shape[2] = 2
    /\ IsMbym(orig, inst) /\ orig.shape[1] = 2
    /\ \E q \in 1..4 : Less(orig.data[q], BAt(inst.lb, 1, ColOf(q, 2)))
    /\ hist = <<"normalize", "unnormalize">>
    /\ X = orig

\* C10: for every BoundedNormalizer with lb[j] < ub[j] for all j, normalize
\* of the row lb is -1 in every coordinate and of the row ub is +1 in every
\* coordinate; normalize(X)[i][j] = 2*(X[i][j] - lb[j])/(ub[j] - lb[j]) - 1,
\* and every X inside the box [lb, ub] is mapped into [-1, 1]^m.
Thm_C10_BoundaryMapping ==
    (/\ inst # NoInst
     /\ orig # NoArray
     /\ ValidBounds(inst)
     /\ IsMbym(orig, inst)
     /\ hist = <<"normalize">>)
    => /\ X.shape = orig.shape
       /\ \A q \in 1..Size(orig.shape) :
            LET j == ColOf(q, orig.shape[2])
                l == At(inst.lb, 1, j)
                u == At(inst.ub, 1, j)
                x == orig.data[q]
            IN  /\ X.data[q] = Sub(Div(Mul(Num(2), Sub(x, l)), Sub(u, l)), Num(1))
                /\ x = l => X.data[q] = Num(-1)
                /\ x = u => X.data[q] = Num(1)
                /\ (Leq(l, x) /\ Leq(x, u)) =>
                      (Leq(Num(-1), X.data[q]) /\ Leq(X.data[q], Num(1)))

Wit_C10_RowOfBounds ==
    /\ inst # NoInst
    /\ orig # NoArray
    /\ ValidBounds(inst)
    /\ inst.lb.shape[2] = 2
    /\ orig.shape = <<1, 2>>
    /\ orig.data = inst.lb.data
    /\ hist = <<"normalize">>
    /\ X.data = <<Num(-1), Num(-1)>>

---------------------------------------------------------------------------
(* numpy.linalg as the UnboundedNormalizer uses it.                        *)

ExcNotSquare == [cls |-> "LinAlgError", msg |-> "Last 2 dimensions of the array must be square"]
ExcNotPosDef == [cls |-> "LinAlgError", msg |-> "Matrix is not positive definite"]
ExcCoreDim == [cls |-> "ValueError", msg |-> "mismatch in core dimension"]
ExcNotAligned == [cls |-> "ValueError", msg |-> "shapes not aligned"]

\* The square root of a rational that is the square of a rational; the
\* generated covariances never ask for another one.
ISqrt(n) == CHOOSE r \in 0..n : r * r = n
Sqrt(a) == Fin(ISqrt(a.n), ISqrt(a.d))

\* sum over k = 1..n of a[i, k] * b[j, k], a and b given by their row-major
\* data with m columns
RECURSIVE RowDot(_, _, _, _, _, _)
RowDot(a, b, m, i, j, n) ==
    IF n = 0 THEN Num(0)
    ELSE Add(RowDot(a, b, m, i, j, n - 1),
             Mul(a[(i - 1) * m + n], b[(j - 1) * m + n]))

\* The entries of the Cholesky factor in row-major order from entry q on,
\* acc holding the entries before q.  Only the diagonal and the lower
\* triangle of C are read; a pivot that is not positive ends the
\* factorization.
RECURSIVE CholeskyData(_, _, _)
CholeskyData(Ca, acc, q) ==
    LET m == Ca.shape[1]
        i == RowOf(q, m)
        j == ColOf(q, m)
    IN  IF q > m * m THEN [ok |-> TRUE, data |-> acc]
        ELSE IF j > i THEN CholeskyData(Ca, Append(acc, Num(0)), q + 1)
        ELSE IF j = i
             THEN LET d == Sub(At(Ca, i, i), RowDot(acc, acc, m, i, i, i - 1)) IN
                  IF ~Less(Num(0), d) THEN [ok |-> FALSE, data |-> acc]
                  ELSE CholeskyData(Ca, Append(acc, Sqrt(d)), q + 1)
        ELSE CholeskyData(Ca,
                 Append(acc, Div(Sub(At(Ca, i, j), RowDot(acc, acc, m, i, j, j - 1)),
                                 acc[(j - 1) * m + j])),
                 q + 1)

\* np.linalg.cholesky(C): the lower-triangular L with L L^T = C, computed
\* from the lower triangle of C without a look at the upper one.
cholesky(Ca) ==
    IF ndim(Ca) # 2 \/ Ca.shape[1] # Ca.shape[2]
    THEN Raise(ExcNotSquare.cls, ExcNotSquare.msg)
    ELSE LET c == CholeskyData(Ca, <<>>, 1) IN
         IF c.ok THEN Return(Arr(Ca.shape, c.data))
         ELSE Raise(ExcNotPosDef.cls, ExcNotPosDef.msg)

\* Entry (i, r) of the solution Z of L Z = B for B with M columns, by
\* forward substitution: the instance's L is lower triangular with a positive
\* diagonal, so the system has this one solution.
RECURSIVE SolveEntry(_, _, _, _, _)
RECURSIVE SolveSum(_, _, _, _, _, _)
SolveSum(La, Ba, M, i, r, n) ==
    IF n = 0 THEN Num(0)
    ELSE Add(SolveSum(La, Ba, M, i, r, n - 1),
             Mul(At(La, i, n), SolveEntry(La, Ba, M, n, r)))
SolveEntry(La, Ba, M, i, r) ==
    Div(Sub(Ba.data[(i - 1) * M + r], SolveSum(La, Ba, M, i, r, i - 1)), At(La, i, i))

\* np.linalg.solve(L, B)
solve(La, Ba) ==
    IF Ba.shape[1] # La.shape[1] THEN Raise(ExcCoreDim.cls, ExcCoreDim.msg)
    ELSE LET m == La.shape[1]
             M == Ba.shape[2]
         IN  Return(Arr(<<m, M>>,
                 [q \in 1..(m * M) |-> SolveEntry(La, Ba, M, RowOf(q, M), ColOf(q, M))]))

\* a.T of a two-dimensional array
transpose(a) ==
    LET r == a.shape[1]
        c == a.shape[2]
    IN  Arr(<<c, r>>, [q \in 1..(r * c) |-> At(a, ColOf(q, r), RowOf(q, r))])

RECURSIVE DotSum(_, _, _, _, _)
DotSum(a, b, i, j, n) ==
    IF n = 0 THEN Num(0)
    ELSE Add(DotSum(a, b, i, j, n - 1), Mul(At(a, i, n), At(b, n, j)))

\* np.dot(a, b) of two-dimensional arrays
dot(a, b) ==
    IF a.shape[2] # b.shape[1] THEN Raise(ExcNotAligned.cls, ExcNotAligned.msg)
    ELSE LET r == a.shape[1]
             c == b.shape[2]
         IN  Return(Arr(<<r, c>>,
                 [q \in 1..(r * c) |-> DotSum(a, b, RowOf(q, c), ColOf(q, c), a.shape[2])]))

\* a - b and a + b of two-dimensional arrays, b of shape (1, n): broadcast
sub_row(a, b) ==
    LET c == BroadcastLen(a.shape[2], b.shape[2]) IN
    IF c = -1 THEN Raise(ExcBroadcast.cls, ExcBroadcast.msg)
    ELSE Return(Arr(<<a.shape[1], c>>,
             [q \in 1..(a.shape[1] * c) |->
                 Sub(BAt(a, RowOf(q, c), ColOf(q, c)), BAt(b, 1, ColOf(q, c)))]))

add_row(a, b) ==
    LET c == BroadcastLen(a.shape[2], b.shape[2]) IN
    IF c = -1 THEN Raise(ExcBroadcast.cls, ExcBroadcast.msg)
    ELSE Return(Arr(<<a.shape[1], c>>,
             [q \in 1..(a.shape[1] * c) |->
                 Add(BAt(a, RowOf(q, c), ColOf(q, c)), BAt(b, 1, ColOf(q, c)))]))

---------------------------------------------------------------------------
(* UnboundedNormalizer.                                                    *)

\* __init__: self.mu = mu.reshape((1, mu.size)); self.L = np.linalg.cholesky(C)
UnboundedNormalizer_init(mu, Ca) ==
    LET c == cholesky(Ca) IN
    IF IsError(c) THEN c
    ELSE Return([cls |-> "UnboundedNormalizer",
                 mu |-> reshape(mu, <<1, Size(mu.shape)>>), L |-> c.val])

\* X0 = X - self.mu; X_norm = np.linalg.solve(self.L, X0.T).T
UnboundedNormalizer_normalize_value(self, Xa) ==
    LET X0 == sub_row(Xa, self.mu) IN
    IF IsError(X0) THEN X0
    ELSE LET Z == solve(self.L, transpose(X0.val)) IN
         IF IsError(Z) THEN Z ELSE Return(transpose(Z.val))

\* unnormalize with the transpose forgotten: np.dot(X, self.L) + self.mu
UnboundedNormalizer_unnormalize_untransposed(self, Xa) ==
    LET X0 == dot(Xa, self.L) IN
    IF IsError(X0) THEN X0 ELSE add_row(X0.val, self.mu)

\* X0 = np.dot(X, self.L.T); X_unnorm = X0 + self.mu
UnboundedNormalizer_unnormalize_value(self, Xa) ==
    LET X0 == dot(Xa, transpose(self.L)) IN
    IF IsError(X0) THEN X0 ELSE add_row(X0.val, self.mu)

UnboundedNormalizer_normalize(self, Xa) ==
    LET p == process_inputs(Xa) IN
    IF IsError(p) THEN Effect(p, self, Xa)
    ELSE Effect(UnboundedNormalizer_normalize_value(self, p.val.X), self, Xa)

UnboundedNormalizer_unnormalize(self, Xa) ==
    LET p == process_inputs(Xa) IN
    IF IsError(p) THEN Effect(p, self, Xa)
    ELSE Effect(UnboundedNormalizer_unnormalize_value(self, p.val.X), self, Xa)

---------------------------------------------------------------------------
(* A caller that builds an UnboundedNormalizer from a generated mean and   *)
(* covariance and passes an array through normalize and unnormalize in     *)
(* turn.                                                                   *)

\* A lower-triangular matrix with integer entries and a positive diagonal.
GenLower(s, m) ==
    Arr(<<m, m>>,
        [q \in 1..(m * m) |->
            IF ColOf(q, m) > RowOf(q, m) THEN Num(0)
            ELSE IF ColOf(q, m) = RowOf(q, m) THEN Num(1 + Abs(Gen(s, q)))
            ELSE Num(Gen(s, q))])

\* entry (i, j) of a replaced by a[i, j] + delta
Bump(a, i, j, delta) ==
    [a EXCEPT !.data[(i - 1) * a.shape[2] + j] = Add(@, delta)]

CovKinds == {"spd", "semidefinite", "indefinite", "unsymmetric", "nonsquare"}

\* The covariance argument: G G^T for a generated lower-triangular G
\* ("spd"); the same with the last pivot lowered to 0 ("semidefinite") or
\* to -1 ("indefinite"); the same with one entry above the diagonal raised
\* when there is one ("unsymmetric"); an m-by-(m+1) array ("nonsquare").
GenCov(s, m, kind) ==
    LET G == GenLower(s, m)
        C0 == dot(G, transpose(G)).val
        g == At(G, m, m)
    IN  CASE kind = "spd" -> C0
          [] kind = "semidefinite" -> Bump(C0, m, m, Neg(Mul(g, g)))
          [] kind = "indefinite" -> Bump(C0, m, m, Sub(Num(-1), Mul(g, g)))
          [] kind = "unsymmetric" -> IF m = 1 THEN C0 ELSE Bump(C0, 1, m, Num(1))
          [] kind = "nonsquare" -> GenArr(s, <<m, m + 1>>)

InitUnbounded ==
    /\ op = "init"
    /\ \E s \in Seeds, t \in Seeds, m \in 1..MaxCols, n \in 0..1, kind \in CovKinds :
           ctor = [mu |-> GenArr(s, <<m + n, 1>>), C |-> GenCov(t, m, kind)]
    /\ X = NoArray
    /\ orig = NoArray
    /\ inst = NoInst
    /\ ret = NotCalled
    /\ hist = <<>>
    /\ f = Unused /\ ind = Unused /\ A = Unused /\ oned_as = Unused
    /\ log = <<>> /\ calls = Unused

ConstructUnbounded ==
    /\ op = "init"
    /\ LET r == UnboundedNormalizer_init(ctor.mu, ctor.C) IN
         /\ ret' = r
         /\ inst' = IF IsOk(r) THEN r.val ELSE NoInst
    /\ op' = "__init__"
    /\ UNCHANGED <<X, f, ind, A, oned_as, ctor, hist, orig, log, calls>>

CallUnboundedNormalize ==
    /\ op \in {"input", "normalize", "unnormalize"} \ {"normalize"}
    /\ IsOk(ret)
    /\ Len(hist) < MaxCalls
    /\ Chain(UnboundedNormalizer_normalize(inst, X), "normalize")

CallUnboundedUnnormalize ==
    /\ op \in {"input", "normalize", "unnormalize"} \ {"unnormalize"}
    /\ IsOk(ret)
    /\ Len(hist) < MaxCalls
    /\ Chain(UnboundedNormalizer_unnormalize(inst, X), "unnormalize")

NextUnbounded ==
    ConstructUnbounded \/ ProvideInput \/ CallUnboundedNormalize \/ CallUnboundedUnnormalize

SpecUnbounded == InitUnbounded /\ [][NextUnbounded]_vars

\* Symmetry and positive definiteness of a square array, the latter by
\* Sylvester's criterion: every leading principal minor is positive.
IsSquare(a) == ndim(a) = 2 /\ a.shape[1] = a.shape[2]
IsSymmetric(a) ==
    IsSquare(a) /\ \A i, j \in 1..a.shape[1] : At(a, i, j) = At(a, j, i)
IsLowerTriangular(a) ==
    IsSquare(a) /\ \A i, j \in 1..a.shape[1] : j > i => At(a, i, j) = Num(0)

Without(cols, p) == [q \in 1..(Len(cols) - 1) |-> IF q < p THEN cols[q] ELSE cols[q + 1]]

RECURSIVE Det(_, _, _)
RECURSIVE DetSum(_, _, _, _)
DetSum(a, r, cols, p) ==
    IF p = 0 THEN Num(0)
    ELSE Add(DetSum(a, r, cols, p - 1),
             Mul(Num(IF p % 2 = 1 THEN 1 ELSE -1),
                 Mul(At(a, r, cols[p]), Det(a, r + 1, Without(cols, p)))))
Det(a, r, cols) == IF cols = <<>> THEN Num(1) ELSE DetSum(a, r, cols, Len(cols))

LeadingMinor(a, n) == Det(a, 1, [q \in 1..n |-> q])
IsSPD(a) ==
    IsSymmetric(a) /\ \A n \in 1..a.shape[1] : Less(Num(0), LeadingMinor(a, n))

\* C7: constructing an UnboundedNormalizer fails with a factorization error
\* (numpy's LinAlgError), and leaves no instance, whenever C is not symmetric
\* positive definite, be it symmetric and not positive definite or not
\* symmetric; it succeeds only for symmetric positive definite C, and then
\* L is lower triangular with L L^T = C.
Claim_C7_FactorizationError ==
    op = "__init__" =>
        /\ ~IsSPD(ctor.C) => (IsError(ret) /\ ret.exc.cls = "LinAlgError" /\ inst = NoInst)
        /\ IsOk(ret) =>
              /\ IsSPD(ctor.C)
              /\ IsLowerTriangular(inst.L)
              /\ dot(inst.L, transpose(inst.L)).val = ctor.C

\* The factorization of a symmetric C succeeds exactly when C is positive
\* definite, and the factor reproduces the lower triangle of C.
CholeskyOfSymmetric ==
    (op = "__init__" /\ IsSymmetric(ctor.C)) =>
        /\ IsOk(ret) <=> IsSPD(ctor.C)
        /\ IsOk(ret) =>
              /\ IsLowerTriangular(inst.L)
              /\ dot(inst.L, transpose(inst.L)).val = ctor.C

\* C4: for every UnboundedNormalizer(mu, C) with C symmetric positive
\* definite and every M-by-m matrix X, unnormalize(normalize(X)) = X and
\* normalize(unnormalize(X)) = X, where normalize returns Z^T for the Z with
\* L Z = (X - mu)^T and unnormalize returns X L^T + mu.
Thm_C4_UnboundedRoundTrip ==
    (/\ inst # NoInst
     /\ orig # NoArray
     /\ IsSPD(ctor.C)
     /\ ndim(orig) = 2 /\ orig.shape[2] = inst.L.shape[1])
    => /\ hist \in {<<"normalize", "unnormalize">>, <<"unnormalize", "normalize">>}
            => X = orig
       /\ hist = <<"normalize">> =>
            dot(inst.L, transpose(X)) = Return(transpose(sub_row(orig, inst.mu).val))
       /\ hist = <<"unnormalize">> =>
            Return(X) = add_row(dot(orig, transpose(inst.L)).val, inst.mu)

Wit_C4_RoundTrip ==
    /\ inst # NoInst
    /\ orig # NoArray
    /\ IsSPD(ctor.C)
    /\ inst.L.shape = <<2, 2>>
    /\ At(inst.L, 2, 1) # Num(0)
    /\ orig.shape = <<2, 2>>
    /\ hist = <<"normalize", "unnormalize">>
    /\ X = orig

---------------------------------------------------------------------------
(* Several callers sharing one normalizer instance, their calls            *)
(* interleaved: a call is entered (its argument bound), then runs to its   *)
(* return or its exception, while the other callers' calls proceed.        *)

Callers == {"c1", "c2"}
Methods == {"normalize", "unnormalize"}

\* self.normalize(X) and self.unnormalize(X), dispatched on the class of self
CallMethod(self, name, Xa) ==
    CASE self.cls = "BoundedNormalizer" /\ name = "normalize" ->
             BoundedNormalizer_normalize(self, Xa)
      [] self.cls = "BoundedNormalizer" /\ name = "unnormalize" ->
             BoundedNormalizer_unnormalize(self, Xa)
      [] self.cls = "UnboundedNormalizer" /\ name = "normalize" ->
             UnboundedNormalizer_normalize(self, Xa)
      [] self.cls = "UnboundedNormalizer" /\ name = "unnormalize" ->
             UnboundedNormalizer_unnormalize(self, Xa)

SharedShapes == {<<1, m>> : m \in 1..MaxCols} \cup {<<1>>}

\* The instance a constructor call returned, kept in ctor for reference.
InitShared ==
    /\ op = "init"
    /\ \E s \in {0, 1}, m \in 1..MaxCols :
          \/ ctor = BoundedNormalizer_init(GenArr(s, <<m, 1>>), GenArr(s + 1, <<m, 1>>)).val
          \/ ctor = UnboundedNormalizer_init(GenArr(s, <<m, 1>>), GenCov(s, m, "spd")).val
    /\ inst = ctor
    /\ orig \in [Callers -> {GenArr(s, sh) : s \in {0, 1}, sh \in SharedShapes}]
    /\ calls = [c \in Callers |->
                  [pc |-> "idle", method |-> "", X |-> orig[c], ret |-> NotCalled, n |-> 0]]
    /\ X = Unused /\ ret = Unused /\ hist = <<>>
    /\ f = Unused /\ ind = Unused /\ A = Unused /\ oned_as = Unused /\ log = <<>>

\* Caller c calls a method of the shared instance on its array.
Enter(c) ==
    /\ calls[c].pc \in {"idle", "done"}
    /\ calls[c].n < MaxCalls
    /\ \E name \in Methods :
          calls' = [calls EXCEPT ![c].pc = "running", ![c].method = name,
                                 ![c].ret = NotCalled, ![c].n = @ + 1]
    /\ op' = "enter"
    /\ UNCHANGED <<X, f, ind, A, oned_as, ctor, inst, ret, hist, orig, log>>

\* The call of caller c runs: validation, then the computation.
Run(c) ==
    /\ calls[c].pc = "running"
    /\ LET e == CallMethod(inst, calls[c].method, calls[c].X) IN
         /\ calls' = [calls EXCEPT ![c].pc = "done", ![c].ret = e.ret, ![c].X = e.X]
         /\ inst' = e.self
    /\ op' = "run"
    /\ UNCHANGED <<X, f, ind, A, oned_as, ctor, ret, hist, orig, log>>

NextShared == \E c \in Callers : Enter(c) \/ Run(c)

SpecShared == InitShared /\ [][NextShared]_vars

\* C9: after construction every sequence of normalize and unnormalize
\* calls, returning or raising, interleaved among several callers, leaves
\* the instance (lb, ub or mu, L) and each caller's array as they were; a
\* call that fails validation computes nothing and returns nothing.
Thm_C9_CallsLeaveStateUnchanged ==
    /\ inst = ctor
    /\ \A c \in Callers :
          /\ calls[c].X = orig[c]
          /\ (calls[c].pc = "done" /\ ndim(orig[c]) # 2) =>
                /\ calls[c].ret = process_inputs(orig[c])
                /\ IsError(calls[c].ret)
                /\ calls[c].ret.val = None
          /\ (calls[c].pc = "done" /\ IsError(calls[c].ret)) => calls[c].ret.val = None

Wit_C9_Interleaved ==
    /\ calls["c1"].pc = "done" /\ IsOk(calls["c1"].ret) /\ calls["c1"].n = 2
    /\ calls["c2"].pc = "done" /\ IsError(calls["c2"].ret)
    /\ calls["c1"].ret.val # orig["c1"]
    /\ inst.cls = "UnboundedNormalizer"

---------------------------------------------------------------------------
(* conditional_expectations.                                               *)

\* Largest number of function values and largest group label generated.
MaxSamples == 3
MaxLabel == 2

ExcZeroSize == [cls |-> "ValueError", msg |-> "zero-size array to reduction operation maximum which has no identity"]

\* np.amax of a non-empty sequence of integers
RECURSIVE amax(_)
amax(v) ==
    IF Len(v) = 1 THEN v[1]
    ELSE LET r == amax(Tail(v)) IN IF v[1] > r THEN v[1] ELSE r

\* f[ind == i]: the values of f whose label is i, in order
RECURSIVE Masked(_, _, _)
Masked(fv, iv, i) ==
    IF fv = <<>> THEN <<>>
    ELSE IF Head(iv) = i THEN <<Head(fv)>> \o Masked(Tail(fv), Tail(iv), i)
    ELSE Masked(Tail(fv), Tail(iv), i)

RECURSIVE SeqSum(_)
SeqSum(v) == IF v = <<>> THEN Num(0) ELSE Add(Head(v), SeqSum(Tail(v)))

\* A mean that guards the empty group: 0 for no values
mean_guarded(v) == IF v = <<>> THEN Num(0) ELSE Div(SeqSum(v), Num(Len(v)))

\* np.mean: the sum over the count; nan (0/0) for no values
mean(v) == Div(SeqSum(v), Num(Len(v)))

\* The sample variance (ddof = 1): the divisor is the count less one
var_sample(v) ==
    LET mu == mean(v) IN
    Div(SeqSum([q \in 1..Len(v) |-> Mul(Sub(v[q], mu), Sub(v[q], mu))]), Num(Len(v) - 1))

\* np.var with ddof = 0: the mean of the squared deviations from the mean
var(v) ==
    LET mu == mean(v) IN
    mean([q \in 1..Len(v) |-> Mul(Sub(v[q], mu), Sub(v[q], mu))])

\* The call's outcome and the record it sends to the logger.
conditional_expectations(fa, inda) ==
    IF Len(inda.data) = 0
    THEN [ret |-> Raise(ExcZeroSize.cls, ExcZeroSize.msg), logged |-> <<>>]
    ELSE LET n == amax(inda.data) + 1
             NMC == Len(Masked(inda.data, inda.data, 0))
         IN  [ret |-> Return(
                  [Ef |-> Arr(<<n, 1>>, [i \in 1..n |-> mean(Masked(fa.data, inda.data, i - 1))]),
                   Vf |-> Arr(<<n, 1>>, [i \in 1..n |-> var(Masked(fa.data, inda.data, i - 1))])]),
              logged |-> <<[n |-> n, NMC |-> NMC]>>]

\* Every label sequence of length M over 0..MaxLabel
Labels(M) == [1..M -> 0..MaxLabel]

InitCond ==
    /\ op = "init"
    /\ \E M \in 0..MaxSamples, s \in Seeds :
          /\ f = GenArr(s, <<M, 1>>)
          /\ \E v \in Labels(M) : ind = Arr(<<M>>, v)
    /\ ret = NotCalled
    /\ log = <<>>
    /\ X = Unused /\ A = Unused /\ oned_as = Unused /\ ctor = Unused
    /\ inst = Unused /\ hist = <<>> /\ orig = Unused /\ calls = Unused

CallConditionalExpectations ==
    /\ op = "init"
    /\ LET r == conditional_expectations(f, ind) IN
         /\ ret' = r.ret
         /\ log' = log \o r.logged
    /\ op' = "conditional_expectations"
    /\ UNCHANGED <<X, f, ind, A, oned_as, ctor, inst, hist, orig, calls>>

NextCond == CallConditionalExpectations

SpecCond == InitCond /\ [][NextCond]_vars

\* The positions of the values labelled i, and sums over sets of positions.
Members(i) == {q \in 1..Len(ind.data) : ind.data[q] = i}

RECURSIVE SumF(_)
SumF(S) ==
    IF S = {} THEN Num(0)
    ELSE LET q == CHOOSE x \in S : TRUE IN Add(f.data[q], SumF(S \ {q}))

RECURSIVE SumSqDev(_, _)
SumSqDev(S, c) ==
    IF S = {} THEN Num(0)
    ELSE LET q == CHOOSE x \in S : TRUE
         IN  Add(Mul(Sub(f.data[q], c), Sub(f.data[q], c)), SumSqDev(S \ {q}, c))

\* Ef[i] and Vf[i] are the arithmetic mean and the population variance of
\* exactly the values of f labelled i (i a label with members).
GroupStatistics(i) ==
    LET S == Members(i)
        c == Num(Cardinality(S))
        E == ret.val.Ef.data[i + 1]
        V == ret.val.Vf.data[i + 1]
    IN  /\ IsFin(E) /\ IsFin(V)
        /\ Mul(E, c) = SumF(S)
        /\ Mul(V, c) = SumSqDev(S, E)

LargestLabel == CHOOSE x \in {ind.data[q] : q \in 1..Len(ind.data)} :
                    \A q \in 1..Len(ind.data) : ind.data[q] <= x

\* C5: conditional_expectations returns column vectors Ef and Vf of length
\* n = max(ind) + 1, and for every label i in 0..n-1 with a member Ef[i] is
\* the mean and Vf[i] the population variance (divisor: the member count)
\* of exactly the values of f labelled i.
Thm_C5_GroupMeanAndVariance ==
    (op = "conditional_expectations" /\ Len(ind.data) > 0) =>
        /\ IsOk(ret)
        /\ ret.val.Ef.shape = <<LargestLabel + 1, 1>>
        /\ ret.val.Vf.shape = <<LargestLabel + 1, 1>>
        /\ Len(ret.val.Ef.data) = LargestLabel + 1
        /\ Len(ret.val.Vf.data) = LargestLabel + 1
        /\ \A i \in 0..LargestLabel : Members(i) # {} => GroupStatistics(i)

Wit_C5_TwoGroups ==
    /\ op = "conditional_expectations"
    /\ IsOk(ret)
    /\ ind.data = <<0, 1, 0>>
    /\ ret.val.Vf.data[1] # Num(0)
    /\ ret.val.Vf.data[2] = Num(0)
    /\ ret.val.Ef.data[1] # ret.val.Ef.data[2]

\* C6: when a label i in 0..max(ind) has no member the call raises nothing,
\* Ef[i] and Vf[i] are nan, and the entries of every group with a member are
\* still its mean and population variance.
Thm_C6_EmptyGroupIsNaN ==
    (op = "conditional_expectations" /\ Len(ind.data) > 0
        /\ \E i \in 0..LargestLabel : Members(i) = {}) =>
        /\ IsOk(ret)
        /\ \A i \in 0..LargestLabel :
              IF Members(i) = {}
              THEN IsNaN(ret.val.Ef.data[i + 1]) /\ IsNaN(ret.val.Vf.data[i + 1])
              ELSE GroupStatistics(i)

Wit_C6_SkippedLabel ==
    /\ op = "conditional_expectations"
    /\ IsOk(ret)
    /\ ind.data = <<2, 0, 2>>
    /\ IsNaN(ret.val.Ef.data[2]) /\ IsNaN(ret.val.Vf.data[2])
    /\ IsFin(ret.val.Vf.data[3]) /\ ret.val.Vf.data[3] # Num(0)

---------------------------------------------------------------------------
(* atleast_2d, atleast_2d_col and atleast_2d_row.                          *)

\* Python values handed to atleast_2d: a number, a list of values, an
\* ndarray.
Scalar(v) == [kind |-> "scalar", v |-> v]
List(items) == [kind |-> "list", items |-> items]
NdArray(a) == [kind |-> "ndarray", a |-> a]

\* np.array of a list of numbers (one axis) or of a list of lists of
\* numbers of one length (two axes)
RECURSIVE Flatten(_)
Flatten(rows) == IF rows = <<>> THEN <<>> ELSE Head(rows).items \o Flatten(Tail(rows))

np_array(l) ==
    IF \A q \in 1..Len(l.items) : l.items[q].kind = "scalar"
    THEN Arr(<<Len(l.items)>>, [q \in 1..Len(l.items) |-> l.items[q].v])
    ELSE Arr(<<Len(l.items), Len(l.items[1].items)>>,
             [q \in 1..(Len(l.items) * Len(l.items[1].items)) |-> Flatten(l.items)[q].v])

ExcOnedAs == [cls |-> "Exception", msg |-> "oned_as must be 'row' or 'col' "]
ExcTooManyIndices == [cls |-> "IndexError", msg |-> "too many indices for array"]

\* The statement raise Exception , "..." is Python 2's raise of
\* Exception("...").
atleast_2d(Av, mode) ==
    LET arr == IF Av.kind = "ndarray" THEN Av.a
               ELSE IF Av.kind = "list" THEN np_array(Av)
               ELSE np_array(List(<<Av>>))
    IN  IF ndim(arr) < 2
        THEN IF mode = "row"
             THEN IF ndim(arr) = 0
                  THEN Raise(ExcTooManyIndices.cls, ExcTooManyIndices.msg)
                  ELSE Return(Arr(<<1>> \o arr.shape, arr.data))
             ELSE IF mode = "col"
             THEN IF ndim(arr) = 0
                  THEN Raise(ExcTooManyIndices.cls, ExcTooManyIndices.msg)
                  ELSE Return(Arr(arr.shape \o <<1>>, arr.data))
             ELSE Raise(ExcOnedAs.cls, ExcOnedAs.msg)
        ELSE Return(arr)

atleast_2d_col(Av) == atleast_2d(Av, "col")
atleast_2d_row(Av) == atleast_2d(Av, "row")

GenList(s, n) == List([q \in 1..n |-> Scalar(Num(Gen(s, q)))])

Inputs2d ==
    {Scalar(Num(Gen(s, 1))) : s \in Seeds}
    \cup {GenList(s, n) : s \in Seeds, n \in 0..MaxCols}
    \cup {List([r \in 1..M |-> GenList(s, n)]) : s \in Seeds, M \in 1..MaxRows, n \in 1..MaxCols}
    \cup {NdArray(GenArr(s, sh)) : s \in {0, 1}, sh \in Shapes}

Modes == {"row", "col", "column"}

InitCoerce ==
    /\ op = "init"
    /\ A \in Inputs2d
    /\ oned_as \in Modes
    /\ ret = NotCalled
    /\ X = Unused /\ f = Unused /\ ind = Unused /\ ctor = Unused
    /\ inst = Unused /\ hist = <<>> /\ orig = Unused /\ log = <<>> /\ calls = Unused

CallAtleast2d ==
    /\ op = "init"
    /\ ret' = atleast_2d(A, oned_as)
    /\ op' = "atleast_2d"
    /\ UNCHANGED <<X, f, ind, A, oned_as, ctor, inst, hist, orig, log, calls>>

CallAtleast2dCol ==
    /\ op = "init"
    /\ ret' = atleast_2d_col(A)
    /\ op' = "atleast_2d_col"
    /\ UNCHANGED <<X, f, ind, A, oned_as, ctor, inst, hist, orig, log, calls>>

CallAtleast2dRow ==
    /\ op = "init"
    /\ ret' = atleast_2d_row(A)
    /\ op' = "atleast_2d_row"
    /\ UNCHANGED <<X, f, ind, A, oned_as, ctor, inst, hist, orig, log, calls>>

NextCoerce == CallAtleast2d \/ CallAtleast2dCol \/ CallAtleast2dRow

SpecCoerce == InitCoerce /\ [][NextCoerce]_vars

\* The rank of the input: 0 for a number, the number of axes of an array,
\* the nesting depth of a list.
RankOf(Av) ==
    IF Av.kind = "scalar" THEN 0
    ELSE IF Av.kind = "ndarray" THEN ndim(Av.a)
    ELSE IF \A q \in 1..Len(Av.items) : Av.items[q].kind = "scalar" THEN 1 ELSE 2

\* The entries of the input in row-major order.
EntriesOf(Av) ==
    IF Av.kind = "scalar" THEN <<Av.v>>
    ELSE IF Av.kind = "ndarray" THEN Av.a.data
    ELSE np_array(Av).data

\* C8: atleast_2d called with a mode other than 'row' and 'col' fails with
\* a ValueError that carries a message and returns no array, whatever the
\* input (number, sequence, array of any rank); with 'row' or 'col' an input
\* of rank < 2 gets a new row axis or column axis, and an input of rank >= 2
\* is returned as it is.
Claim_C8_InvalidModeFails ==
    op = "atleast_2d" =>
        IF oned_as \notin {"row", "col"}
        THEN /\ IsError(ret)
             /\ ret.exc.cls = "ValueError"
             /\ ret.exc.msg # ""
             /\ ret.val = None
        ELSE /\ IsOk(ret)
             /\ ret.val.data = EntriesOf(A)
             /\ IF RankOf(A) >= 2 THEN A.kind = "ndarray" => ret.val = A.a
                ELSE IF oned_as = "row" THEN ret.val.shape = <<1, Len(EntriesOf(A))>>
                ELSE ret.val.shape = <<Len(EntriesOf(A)), 1>>

=============================================================================
